---- MODULE Spec2Model ----
(***************************************************************************)
(* The request client of MyVakeel (static/app.js): APIManager.makeRequest, *)
(* its header merging, body parsing, error construction and retry loop.    *)
(***************************************************************************)
EXTENDS Integers, Sequences, FiniteSets, Bags, TLC

VARIABLES
    retryAttempts,  \* this.retryAttempts of the APIManager
    retryDelay,     \* this.retryDelay of the APIManager, in ms
    pc,             \* where the makeRequest call stands
    options,        \* the options bag the caller passed to makeRequest
    finalOptions,   \* finalOptions, the object handed to fetch
    attempt,        \* the loop variable of the retry loop
    events,         \* the calls made to fetch and setTimeout, and what fetch answered
    response,       \* <<r>>: the current attempt received the response r
    error,          \* <<e>>: the catch block of the current attempt caught e
    outcome,        \* what makeRequest returned or threw
    baseURL,        \* this.baseURL of the APIManager
    cpc,            \* per concurrent call: where the call stands
    cpassed,        \* per concurrent call: the endpoint and options bag as passed
    coptions,       \* per concurrent call: the caller's options bag as it is now
    curl,           \* per concurrent call: url
    cfinal,         \* per concurrent call: finalOptions
    cattempt,       \* the loop variables of the concurrent calls
    cevents,        \* per concurrent call: its calls to fetch and setTimeout
    clast,          \* per concurrent call: <<r>>, the response of its last attempt
    coutcome,       \* per concurrent call: what it returned or threw
    currentUser,    \* the global currentUser
    storedUser,     \* localStorage.getItem('myvakeel_user')
    loginModal,     \* the login modal is shown (display: flex)
    selectedFile,   \* fileInput.files: <<>> or <<size of files[0] in bytes>>
    disabled,       \* per button: its disabled property
    reqs,           \* the makeRequest calls of the page that have not ended (a bag)
    detected,       \* the last call of detectErrorType: its arguments and result
    shown,          \* the last call of showEnhancedError by an analysis: who, which type
    languageManager,    \* the global languageManager: <<>> (null) or <<its fields>>
    storedLanguage,     \* localStorage 'myvakeel_language': <<>> or <<the string>>
    recognition,        \* the global recognition: <<>> (null) or <<its lang and phase>>
    isListening,        \* the global isListening
    restartTimers,      \* the pending setTimeout(startVoiceInput, 300) of the callback
    changed             \* the last call of changeLanguage: argument, result, notified

\* The state of the concurrent calls on one client.
concurrentVars == <<cpc, cpassed, coptions, curl, cfinal, cattempt, cevents, clast, coutcome>>

\* The state of the page: session, login modal, file input, calls in flight.
pageVars == <<currentUser, storedUser, loginModal, selectedFile, disabled, reqs>>

\* The reporting of errors to the user.
reportVars == <<detected, shown>>

\* The language of the page and its voice input.
languageVars == <<languageManager, storedLanguage, recognition, isListening,
                  restartTimers, changed>>

\* What neither the calls nor the handlers of the page touch.
sideVars == <<reportVars, languageVars>>

\* What a single call on its own leaves alone.
restVars == <<baseURL, concurrentVars, pageVars, sideVars>>

vars == <<retryAttempts, retryDelay, pc, options, finalOptions, attempt,
          events, response, error, outcome, baseURL, concurrentVars, pageVars, sideVars>>

----------------------------------------------------------------------------
(* JavaScript values, as far as payloads and error fields need them.       *)

Null == [t |-> "null"]
Undefined == [t |-> "undefined"]
Str(s) == [t |-> "string", v |-> s]
Num(n) == [t |-> "number", v |-> n]
Bool(b) == [t |-> "boolean", v |-> b]
Obj(f) == [t |-> "object", v |-> f]

\* JavaScript truthiness (the test of `a && b`, `a ? b : c`, `a || b`).
Truthy(x) ==
    CASE x.t = "null" -> FALSE
      [] x.t = "undefined" -> FALSE
      [] x.t = "string" -> x.v # ""
      [] x.t = "number" -> x.v # 0
      [] x.t = "boolean" -> x.v
      [] OTHER -> TRUE

\* Property access x.name on a non-nullish value.
GetField(x, name) ==
    IF x.t = "object" /\ name \in DOMAIN x.v THEN x.v[name] ELSE Undefined

\* String(x), the conversion Error's constructor applies to its message.
ToStr(x) ==
    CASE x.t = "string" -> x.v
      [] x.t = "number" -> ToString(x.v)
      [] x.t = "boolean" -> IF x.v THEN "true" ELSE "false"
      [] x.t = "object" -> "[object Object]"
      [] OTHER -> x.t

----------------------------------------------------------------------------
(* What the server can answer.                                             *)

Statuses == {200, 299, 304, 400, 499, 500, 503}

BodySuccess == "{\"success\":true}"
BodyBadEmail == "{\"error\":\"bad email\"}"
BodyEmptyError == "{\"error\":\"\"}"
BodyNumError == "{\"error\":42}"
BodyText == "Internal Server Error"
BodyEmpty == ""

\* The users of the application, and the answer of /api/register for each.
Emails == {"asha@example.in", "ravi@example.in"}
BodyRegistered(e) == "{\"success\":true,\"email\":\"" \o e \o "\"}"

\* JSON.stringify of a user record { email }.
Stringify(user) ==
    IF GetField(user, "email").t = "string"
    THEN "{\"email\":\"" \o GetField(user, "email").v \o "\"}"
    ELSE "{}"

Bodies == {BodySuccess, BodyBadEmail, BodyEmptyError, BodyNumError, BodyText, BodyEmpty}

\* The content-type header of a response; "" stands for a response without one
\* (headers.get returns null, which `|| ''` turns into the empty string).
ContentTypes == {"application/json", "text/html; charset=utf-8", ""}

\* bodyOk = FALSE: reading the body stream fails (response.json() and
\* response.text() reject).
Responses ==
    [status : Statuses, contentType : ContentTypes, body : Bodies, bodyOk : {TRUE}]
    \cup [status : Statuses, contentType : ContentTypes, body : {BodyEmpty}, bodyOk : {FALSE}]

\* JSON.parse on the bodies above: the value, or ok = FALSE for a SyntaxError.
JSONParse(text) ==
    CASE text = BodySuccess -> [ok |-> TRUE, value |-> Obj([success |-> Bool(TRUE)])]
      [] text = BodyBadEmail -> [ok |-> TRUE, value |-> Obj([error |-> Str("bad email")])]
      [] text = BodyEmptyError -> [ok |-> TRUE, value |-> Obj([error |-> Str("")])]
      [] text = BodyNumError -> [ok |-> TRUE, value |-> Obj([error |-> Num(42)])]
      [] text \in {BodyRegistered(e) : e \in Emails} ->
            [ok |-> TRUE,
             value |-> Obj([success |-> Bool(TRUE),
                            email |-> Str(CHOOSE e \in Emails : text = BodyRegistered(e))])]
      [] text \in {Stringify(Obj([email |-> Str(e)])) : e \in Emails} ->
            [ok |-> TRUE,
             value |-> Obj([email |-> Str(CHOOSE e \in Emails :
                                            text = Stringify(Obj([email |-> Str(e)])))])]
      [] OTHER -> [ok |-> FALSE, value |-> Undefined]

\* contentType.includes('application/json')
IncludesApplicationJson(ct) == ct \in {"application/json", "application/json; charset=utf-8"}

\* response.ok with the upper end of the success range left out.
ResponseOkExclusive(r) == r.status >= 200 /\ r.status < 299

\* response.ok
ResponseOk(r) == r.status >= 200 /\ r.status <= 299

----------------------------------------------------------------------------
(* Header objects: JavaScript objects, keys compared case-sensitively.     *)

EmptyHeaders == [k \in {} |-> ""]

DefaultHeaders ==
    [k \in {"Accept", "Content-Type"} |-> "application/json"]

\* { ...a, ...b }
Spread(a, b) ==
    [k \in DOMAIN a \cup DOMAIN b |-> IF k \in DOMAIN b THEN b[k] ELSE a[k]]

\* delete h[key]
Delete(h, key) == [k \in DOMAIN h \ {key} |-> h[k]]

\* The name a header key has on the wire: HTTP header names are
\* case-insensitive, the Headers class lower-cases them.
LowerCase(k) ==
    CASE k = "Accept" -> "accept"
      [] k = "Content-Type" -> "content-type"
      [] k = "User-Email" -> "user-email"
      [] OTHER -> k

CallerHeaderKeys == {"Accept", "Content-Type", "content-type", "User-Email"}

CallerValue(k) ==
    CASE k = "Accept" -> "text/plain"
      [] k = "Content-Type" -> "multipart/form-data"
      [] k = "content-type" -> "text/plain"
      [] OTHER -> "user@example.com"

CallerHeaders == { [k \in ks |-> CallerValue(k)] : ks \in SUBSET CallerHeaderKeys }

\* body: a JSON string, a FormData, or none.
BodyKinds == {"none", "json", "FormData"}

OptionBags == [headers : CallerHeaders, body : BodyKinds]

\* The merge the wrong way round: the defaults spread over the caller's headers.
BuildFinalOptionsDefaultsLast(opts) ==
    LET merged == Spread(opts.headers, DefaultHeaders)
    IN [headers |-> IF opts.body = "FormData" THEN Delete(merged, "Content-Type") ELSE merged,
        body |-> opts.body]

\* makeRequest, lines 162-176: finalOptions as handed to fetch.
BuildFinalOptions(opts) ==
    LET defaultHeaders == Spread(DefaultHeaders, opts.headers)
        merged == Spread(defaultHeaders, opts.headers)
    IN [headers |-> IF opts.body = "FormData" THEN Delete(merged, "Content-Type") ELSE merged,
        body |-> opts.body]

----------------------------------------------------------------------------
(* One attempt: body parsing and error construction.                       *)

\* The text branch with `catch { payload = null }` in place of `payload = text`.
ParsePayloadDropsText(r) ==
    IF IncludesApplicationJson(r.contentType)
    THEN IF r.bodyOk /\ JSONParse(r.body).ok THEN JSONParse(r.body).value ELSE Null
    ELSE LET text == IF r.bodyOk THEN Str(r.body) ELSE Null
         IN IF Truthy(text) /\ JSONParse(r.body).ok THEN JSONParse(r.body).value ELSE Null

\* The JSON branch with the raw-text fallback of the text branch.
ParsePayloadTextFallbackInBothBranches(r) ==
    LET text == IF r.bodyOk THEN Str(r.body) ELSE Null
    IN IF Truthy(text)
       THEN IF JSONParse(r.body).ok THEN JSONParse(r.body).value ELSE text
       ELSE Null

\* makeRequest, lines 181-193.
ParsePayload(r) ==
    IF IncludesApplicationJson(r.contentType)
    THEN IF r.bodyOk /\ JSONParse(r.body).ok THEN JSONParse(r.body).value ELSE Null
    ELSE LET text == IF r.bodyOk THEN Str(r.body) ELSE Null
         IN IF Truthy(text)
            THEN IF JSONParse(r.body).ok THEN JSONParse(r.body).value ELSE text
            ELSE Null

APIError(message, status, data) ==
    [name |-> "APIError", message |-> ToStr(message), status |-> status, data |-> data]

\* What fetch rejects with when the transport fails.
TransportError == [name |-> "TypeError", message |-> "Failed to fetch"]

\* The message taken from the error field whenever the body has one
\* (`'error' in payload` in place of the truthiness test).
ErrMsgIfPresent(payload, status) ==
    IF payload.t = "object" /\ "error" \in DOMAIN payload.v
    THEN GetField(payload, "error")
    ELSE Str("Server error " \o ToString(status))

\* makeRequest, line 196.
ErrMsg(payload, status) ==
    IF Truthy(payload) /\ Truthy(GetField(payload, "error"))
    THEN GetField(payload, "error")
    ELSE Str("Server error " \o ToString(status))

\* makeRequest, lines 196-197.
ResponseError(r) == APIError(ErrMsg(ParsePayload(r), r.status), r.status, ParsePayload(r))

\* The 4xx test with its lower end off by one (`> 400`).
IsClientErrorAbove400(e) ==
    e.name = "APIError" /\ e.status > 400 /\ e.status < 500

\* The 4xx test without its upper end: every HTTP error is fatal.
IsClientErrorNoUpperEnd(e) ==
    e.name = "APIError" /\ e.status >= 400

\* makeRequest, line 202.
IsClientError(e) ==
    e.name = "APIError" /\ e.status >= 400 /\ e.status < 500

\* The loop giving up one attempt early.
LastAttemptOneEarly(a) == a + 1 = retryAttempts

\* The exhaustion test that never holds inside the loop (`>` for `===`).
LastAttemptNever(a) == a > retryAttempts

\* makeRequest, line 205.
LastAttempt(a) == a = retryAttempts

\* A constant delay in place of the linear one.
BackoffDelayConstant(a) == retryDelay

\* makeRequest, line 206.
BackoffDelay(a) == retryDelay * (a + 1)

----------------------------------------------------------------------------
(* The client and the calls the application makes on it.                   *)

\* window.location: protocol, hostname and port ("" for the default port).
Locations ==
    { [protocol |-> "http:", hostname |-> "localhost", port |-> ""],
      [protocol |-> "http:", hostname |-> "127.0.0.1", port |-> "5000"],
      [protocol |-> "http:", hostname |-> "192.168.1.7", port |-> "8080"],
      [protocol |-> "https:", hostname |-> "myvakeel.example.com", port |-> ""],
      [protocol |-> "https:", hostname |-> "myvakeel.example.com", port |-> "8443"] }

\* The page the README sends the user to.
DevLocation == [protocol |-> "http:", hostname |-> "127.0.0.1", port |-> "5000"]

\* hostname.includes('192.168.')
Includes192168(hostname) == hostname \in {"192.168.1.7"}

\* window.location.origin
Origin(loc) ==
    loc.protocol \o "//" \o loc.hostname \o (IF loc.port = "" THEN "" ELSE ":" \o loc.port)

\* detectBaseURL without its branch for local hosts.
DetectBaseURLAlwaysOrigin(loc) == Origin(loc)

\* detectBaseURL, lines 151-157.
DetectBaseURL(loc) ==
    IF loc.hostname = "localhost" \/ loc.hostname = "127.0.0.1" \/ Includes192168(loc.hostname)
    THEN loc.protocol \o "//" \o loc.hostname \o ":" \o (IF loc.port # "" THEN loc.port ELSE "5000")
    ELSE Origin(loc)

\* endpoint.startsWith('/')
StartsWithSlash(endpoint) ==
    endpoint \in {"/register", "/analyze-file", "/analyze-text", "/chat", "/health"}

\* makeRequest, line 160.
RequestURL(base, endpoint) ==
    base \o "/api" \o (IF StartsWithSlash(endpoint) THEN endpoint ELSE "/" \o endpoint)

\* The calls of registerUser, analyzeFileAPI, analyzeTextAPI, sendChatAPI and
\* checkHealthAPI, lines 340-398.
ApiCalls ==
    { [endpoint |-> "/register", options |-> [headers |-> EmptyHeaders, body |-> "json"]],
      [endpoint |-> "/analyze-file",
       options |-> [headers |-> [k \in {"User-Email"} |-> "user@example.com"],
                    body |-> "FormData"]],
      [endpoint |-> "/analyze-text",
       options |-> [headers |-> [k \in {"User-Email", "Content-Type"} |->
                                    IF k = "User-Email" THEN "user@example.com"
                                    ELSE "application/json"],
                    body |-> "json"]],
      [endpoint |-> "/chat", options |-> [headers |-> EmptyHeaders, body |-> "json"]],
      [endpoint |-> "/health", options |-> [headers |-> EmptyHeaders, body |-> "none"]] }

----------------------------------------------------------------------------
(* The call as a state machine.                                            *)

Ev(kind, n) == [ev |-> kind, n |-> n]

Pending == [kind |-> "pending"]

\* The calls that can run at the same time on one client.
Calls == {1, 2}

NoCall == [endpoint |-> "", options |-> [headers |-> EmptyHeaders, body |-> "none"]]

\* No concurrent call has been made.
NoConcurrentCalls ==
    /\ cpc = [c \in Calls |-> "idle"]
    /\ cpassed = [c \in Calls |-> NoCall]
    /\ coptions = [c \in Calls |-> NoCall.options]
    /\ curl = [c \in Calls |-> ""]
    /\ cfinal = [c \in Calls |-> NoCall.options]
    /\ cattempt = [c \in Calls |-> 0]
    /\ cevents = [c \in Calls |-> <<>>]
    /\ clast = [c \in Calls |-> <<>>]
    /\ coutcome = [c \in Calls |-> Pending]

\* The buttons the handlers disable while their request is pending.
Buttons == {"analyze-file-btn", "analyze-text-btn", "send-chat-btn", "login-btn"}

\* No error has been classified or shown yet.
NoDetection == [called |-> FALSE]
NoPanel == [flow |-> "none", type |-> "none"]
NoReport ==
    /\ detected = NoDetection
    /\ shown = NoPanel

\* The page in English, nothing stored, the recognizer created and idle.
NoChange == [langCode |-> "", returned |-> "none", notified |-> FALSE]
NoLanguage ==
    /\ languageManager = << [currentLanguage |-> "en"] >>
    /\ storedLanguage = <<>>
    /\ recognition = << [lang |-> "en-US", phase |-> "idle"] >>
    /\ isListening = FALSE
    /\ restartTimers = 0
    /\ changed = NoChange

\* Nothing has happened beside the calls and the page.
NoSide == NoReport /\ NoLanguage

\* The page before any handler has run: nobody logged in, nothing stored.
NoPage ==
    /\ currentUser = Null
    /\ storedUser = Null
    /\ loginModal = FALSE
    /\ selectedFile = <<>>
    /\ disabled = [b \in Buttons |-> FALSE]
    /\ reqs = EmptyBag

\* The configuration the constructor sets, lines 147-148.
RetryAttempts == 2
RetryDelay == 1000

Init ==
    /\ retryAttempts = RetryAttempts
    /\ retryDelay = RetryDelay
    /\ pc = "idle"
    /\ options = [headers |-> EmptyHeaders, body |-> "none"]
    /\ finalOptions = [headers |-> EmptyHeaders, body |-> "none"]
    /\ attempt = 0
    /\ events = <<>>
    /\ response = <<>>
    /\ error = <<>>
    /\ outcome = Pending
    /\ baseURL = DetectBaseURL(DevLocation)
    /\ NoConcurrentCalls
    /\ NoPage
    /\ NoSide

\* makeRequest up to its first await: finalOptions is built, the loop starts
\* and the first fetch is issued.
MakeRequest(opts) ==
    /\ pc = "idle"
    /\ options' = opts
    /\ finalOptions' = BuildFinalOptions(opts)
    /\ attempt' = 0
    /\ events' = Append(events, Ev("fetch", 0))
    /\ pc' = "fetching"
    /\ UNCHANGED <<retryAttempts, retryDelay, response, error, outcome>>
    /\ UNCHANGED restVars

\* The catch block with a transport failure wrapped into an APIError.
CatchWrapsTransportError(e, seen) ==
    LET w == IF e.name = "APIError" THEN e ELSE APIError(Str(e.message), 0, Null)
    IN /\ error' = <<w>>
       /\ IF IsClientError(w) \/ LastAttempt(attempt)
          THEN /\ pc' = "thrown"
               /\ outcome' = [kind |-> "thrown", error |-> w]
               /\ events' = seen
          ELSE /\ pc' = "sleeping"
               /\ outcome' = outcome
               /\ events' = Append(seen, Ev("sleep", BackoffDelay(attempt)))

\* The catch block without the call to sleep: the loop goes on at once.
CatchWithoutSleep(e, seen) ==
    /\ error' = <<e>>
    /\ IF IsClientError(e) \/ LastAttempt(attempt)
       THEN /\ pc' = "thrown"
            /\ outcome' = [kind |-> "thrown", error |-> e]
            /\ events' = seen
       ELSE /\ pc' = "sleeping"
            /\ outcome' = outcome
            /\ events' = seen

\* The catch block throwing the HTTP error of the call's first response in
\* place of the one it has just caught.
CatchThrowsFirstHttpError(e, seen) ==
    /\ error' = <<e>>
    /\ IF IsClientError(e) \/ LastAttempt(attempt)
       THEN /\ pc' = "thrown"
            /\ outcome' =
                  [kind |-> "thrown",
                   error |-> IF e.name = "APIError"
                             THEN [e EXCEPT !.status =
                                     seen[CHOOSE i \in DOMAIN seen :
                                            /\ seen[i].ev = "response"
                                            /\ \A j \in 1..(i - 1) : seen[j].ev # "response"].n]
                             ELSE e]
            /\ events' = seen
       ELSE /\ pc' = "sleeping"
            /\ outcome' = outcome
            /\ events' = Append(seen, Ev("sleep", BackoffDelay(attempt)))

\* The catch block, lines 201-207: rethrow, or call sleep and await it.
Catch(e, seen) ==
    /\ error' = <<e>>
    /\ IF IsClientError(e) \/ LastAttempt(attempt)
       THEN /\ pc' = "thrown"
            /\ outcome' = [kind |-> "thrown", error |-> e]
            /\ events' = seen
       ELSE /\ pc' = "sleeping"
            /\ outcome' = outcome
            /\ events' = Append(seen, Ev("sleep", BackoffDelay(attempt)))

\* fetch resolves with the response r: lines 181-207.
FetchResolves(r) ==
    /\ pc = "fetching"
    /\ response' = <<r>>
    /\ LET seen == Append(events, Ev("response", r.status))
       IN IF ResponseOk(r)
          THEN /\ pc' = "returned"
               /\ outcome' = [kind |-> "returned", value |-> ParsePayload(r)]
               /\ events' = seen
               /\ error' = error
          ELSE Catch(ResponseError(r), seen)
    /\ UNCHANGED <<retryAttempts, retryDelay, options, finalOptions, attempt>>
    /\ UNCHANGED restVars

\* fetch rejects, the transport failed: lines 201-207.
FetchRejects ==
    /\ pc = "fetching"
    /\ response' = <<>>
    /\ Catch(TransportError, Append(events, Ev("reject", attempt)))
    /\ UNCHANGED <<retryAttempts, retryDelay, options, finalOptions, attempt>>
    /\ UNCHANGED restVars

\* The timer set by sleep fires: the catch block ends and the loop increments
\* attempt; while attempt <= retryAttempts the next fetch is issued, otherwise
\* the loop ends and the function returns undefined (lines 178, 208-209).
TimerFires ==
    /\ pc = "sleeping"
    /\ attempt' = attempt + 1
    /\ response' = <<>>
    /\ error' = <<>>
    /\ IF attempt + 1 <= retryAttempts
       THEN /\ events' = Append(events, Ev("fetch", attempt + 1))
            /\ pc' = "fetching"
            /\ outcome' = outcome
       ELSE /\ events' = events
            /\ pc' = "returned"
            /\ outcome' = [kind |-> "returned", value |-> Undefined]
    /\ UNCHANGED <<retryAttempts, retryDelay, options, finalOptions>>
    /\ UNCHANGED restVars

Next ==
    \/ \E opts \in OptionBags : MakeRequest(opts)
    \/ \E r \in Responses : FetchResolves(r)
    \/ FetchRejects
    \/ TimerFires

\* The transport answers every request (it resolves or rejects) and timers
\* fire: what the event loop guarantees once the transport does its part.
FairSpec ==
    /\ Init /\ [][Next]_vars
    /\ WF_vars(\E opts \in OptionBags : MakeRequest(opts))
    /\ WF_vars((\E r \in Responses : FetchResolves(r)) \/ FetchRejects)
    /\ WF_vars(TimerFires)

Spec == Init /\ [][Next]_vars

----------------------------------------------------------------------------
(* Several calls on one client: each runs makeRequest with its own         *)
(* locals; they share this.baseURL, this.retryAttempts, this.retryDelay.   *)

\* What a concurrent call leaves alone.
singleVars == <<pc, options, finalOptions, attempt, events, response, error, outcome,
                pageVars, sideVars>>

\* What the server answers to the concurrent calls.
ClientResponses ==
    { [status |-> 200, contentType |-> "application/json", body |-> BodySuccess, bodyOk |-> TRUE],
      [status |-> 400, contentType |-> "application/json", body |-> BodyBadEmail, bodyOk |-> TRUE],
      [status |-> 503, contentType |-> "text/html; charset=utf-8", body |-> BodyText,
       bodyOk |-> TRUE] }

\* All the loop variables in one place, as a module-level counter would be.
AttemptSlotShared(c) == 1

\* `let attempt` at line 178: every call has its own loop variable.
AttemptSlot(c) == c

\* The caller's headers object taken as the target of the merge.
OptionsAfterCallMergedInPlace(opts) ==
    [opts EXCEPT !.headers = BuildFinalOptions(opts).headers]

\* The caller's options bag after lines 162-176: finalOptions and its headers
\* are fresh objects, the bag is only read.
OptionsAfterCall(opts) == opts

ClientInit ==
    /\ retryAttempts = RetryAttempts
    /\ retryDelay = RetryDelay
    /\ \E loc \in Locations : baseURL = DetectBaseURL(loc)
    /\ pc = "idle"
    /\ options = [headers |-> EmptyHeaders, body |-> "none"]
    /\ finalOptions = [headers |-> EmptyHeaders, body |-> "none"]
    /\ attempt = 0
    /\ events = <<>>
    /\ response = <<>>
    /\ error = <<>>
    /\ outcome = Pending
    /\ NoConcurrentCalls
    /\ NoPage
    /\ NoSide

\* Call c of makeRequest up to its first await, lines 159-180.
CallMakeRequest(c, call) ==
    /\ cpc[c] = "idle"
    /\ cpassed' = [cpassed EXCEPT ![c] = call]
    /\ coptions' = [coptions EXCEPT ![c] = OptionsAfterCall(call.options)]
    /\ curl' = [curl EXCEPT ![c] = RequestURL(baseURL, call.endpoint)]
    /\ cfinal' = [cfinal EXCEPT ![c] = BuildFinalOptions(call.options)]
    /\ cattempt' = [cattempt EXCEPT ![AttemptSlot(c)] = 0]
    /\ cevents' = [cevents EXCEPT ![c] = Append(@, Ev("fetch", 0))]
    /\ cpc' = [cpc EXCEPT ![c] = "fetching"]
    /\ UNCHANGED <<retryAttempts, retryDelay, baseURL, clast, coutcome, singleVars>>

\* The catch block of call c, lines 201-207.
CallCatch(c, e, seen) ==
    IF IsClientError(e) \/ LastAttempt(cattempt[AttemptSlot(c)])
    THEN /\ cpc' = [cpc EXCEPT ![c] = "thrown"]
         /\ coutcome' = [coutcome EXCEPT ![c] = [kind |-> "thrown", error |-> e]]
         /\ cevents' = [cevents EXCEPT ![c] = seen]
    ELSE /\ cpc' = [cpc EXCEPT ![c] = "sleeping"]
         /\ coutcome' = coutcome
         /\ cevents' = [cevents EXCEPT ![c] =
                           Append(seen, Ev("sleep", BackoffDelay(cattempt[AttemptSlot(c)])))]

\* The fetch of call c resolves with the response r: lines 181-207.
CallFetchResolves(c, r) ==
    /\ cpc[c] = "fetching"
    /\ clast' = [clast EXCEPT ![c] = <<r>>]
    /\ LET seen == Append(cevents[c], Ev("response", r.status))
       IN IF ResponseOk(r)
          THEN /\ cpc' = [cpc EXCEPT ![c] = "returned"]
               /\ coutcome' = [coutcome EXCEPT ![c] =
                                  [kind |-> "returned", value |-> ParsePayload(r)]]
               /\ cevents' = [cevents EXCEPT ![c] = seen]
          ELSE CallCatch(c, ResponseError(r), seen)
    /\ UNCHANGED <<retryAttempts, retryDelay, baseURL, cpassed, coptions, curl, cfinal,
                   cattempt, singleVars>>

\* The fetch of call c rejects: lines 201-207.
CallFetchRejects(c) ==
    /\ cpc[c] = "fetching"
    /\ clast' = [clast EXCEPT ![c] = <<>>]
    /\ CallCatch(c, TransportError,
                 Append(cevents[c], Ev("reject", cattempt[AttemptSlot(c)])))
    /\ UNCHANGED <<retryAttempts, retryDelay, baseURL, cpassed, coptions, curl, cfinal,
                   cattempt, singleVars>>

\* The timer of call c fires: next iteration of its loop, lines 178-180, 208-209.
CallTimerFires(c) ==
    /\ cpc[c] = "sleeping"
    /\ cattempt' = [cattempt EXCEPT ![AttemptSlot(c)] = @ + 1]
    /\ clast' = [clast EXCEPT ![c] = <<>>]
    /\ IF cattempt[AttemptSlot(c)] + 1 <= retryAttempts
       THEN /\ cevents' = [cevents EXCEPT ![c] =
                              Append(@, Ev("fetch", cattempt[AttemptSlot(c)] + 1))]
            /\ cpc' = [cpc EXCEPT ![c] = "fetching"]
            /\ coutcome' = coutcome
       ELSE /\ cevents' = cevents
            /\ cpc' = [cpc EXCEPT ![c] = "returned"]
            /\ coutcome' = [coutcome EXCEPT ![c] = [kind |-> "returned", value |-> Undefined]]
    /\ UNCHANGED <<retryAttempts, retryDelay, baseURL, cpassed, coptions, curl, cfinal,
                   singleVars>>

ClientNext ==
    \/ \E c \in Calls, call \in ApiCalls : CallMakeRequest(c, call)
    \/ \E c \in Calls, r \in ClientResponses : CallFetchResolves(c, r)
    \/ \E c \in Calls : CallFetchRejects(c)
    \/ \E c \in Calls : CallTimerFires(c)

ClientSpec == ClientInit /\ [][ClientNext]_vars

----------------------------------------------------------------------------
(* The page: session, login modal, file input, buttons, and the calls of   *)
(* makeRequest the handlers have started and that have not ended yet.      *)

\* What the handlers of the page leave alone.
offPageVars == <<retryAttempts, retryDelay, baseURL, pc, options, finalOptions, attempt,
                 events, response, error, outcome, concurrentVars, sideVars>>

MaxInFlight == 2

\* The sizes in bytes of the files the user picks or drops: the limit and
\* the first size above it. SmallFileSizes are put to the size tests alone.
FileSizes == {10 * 1024 * 1024, 10 * 1024 * 1024 + 1}
SmallFileSizes == {0, 2048, 10 * 1024 * 1024 - 1}

\* The lengths of textInput.value.trim().
TextLengths == {0, 1, 50000, 50001}

\* What the user types in the chat input, and String.prototype.trim on it.
ChatInputs == {"", "   ", " What is bail? "}
Trim(text) ==
    CASE text = "   " -> ""
      [] text = " What is bail? " -> "What is bail?"
      [] OTHER -> text

\* What the user types in the email input (already trimmed).
EmailInputs == {"", "asha.example.in", "asha@example", "asha@example.in"}

\* /^[^\s@]+@[^\s@]+\.[^\s@]+$/ on the inputs above.
IsValidEmail(email) ==
    CASE email = "asha@example.in" -> TRUE
      [] OTHER -> FALSE

\* What localStorage holds under 'myvakeel_user' when the page is opened.
StoredUsers == {Null} \cup {Str(Stringify(Obj([email |-> Str(e)]))) : e \in Emails}

\* The answers of the server to a call of the page.
PageResponses(endpoint) ==
    { [status |-> 400, contentType |-> "application/json", body |-> BodyBadEmail, bodyOk |-> TRUE],
      [status |-> 503, contentType |-> "text/html; charset=utf-8", body |-> BodyText,
       bodyOk |-> TRUE] }
    \cup
    IF endpoint = "/register"
    THEN { [status |-> 200, contentType |-> "application/json", body |-> b, bodyOk |-> TRUE] :
             b \in {BodyRegistered(e) : e \in Emails} \cup {BodyBadEmail} }
    ELSE { [status |-> 200, contentType |-> "application/json", body |-> BodySuccess,
            bodyOk |-> TRUE] }

\* A call of makeRequest at its first fetch. userEmail is <<>> without a
\* User-Email header, file is <<>> without a file in the body.
NewRequest(endpoint, userEmail, file) ==
    [endpoint |-> endpoint, userEmail |-> userEmail, file |-> file,
     attempt |-> 0, pc |-> "fetching"]

Issue(bag, rq) == bag (+) SetToBag({rq})
Drop(bag, rq) == bag (-) SetToBag({rq})
InFlight == BagToSet(reqs)
Room == BagCardinality(reqs) < MaxInFlight

\* checkUserSession: the user read back from local storage.
CheckUserSession(savedUser) ==
    IF Truthy(savedUser) THEN JSONParse(savedUser.v).value ELSE Null

\* The size test of handleFileSelect, with the limit itself refused.
FileTooLargeToSelectInclusive(size) == size >= 10 * 1024 * 1024

\* The size tests of handleFileSelect and of analyzeFile.
FileTooLargeToSelect(size) == size > 10 * 1024 * 1024
FileTooLargeToAnalyze(size) == size > 10 * 1024 * 1024

\* analyzeFile without its login test.
LoginRequiredNever(user) == FALSE

\* `if (!currentUser)` of analyzeFile.
LoginRequired(user) == ~Truthy(user)

\* `userEmail || ''` of analyzeFileAPI.
UserEmailOrEmpty(userEmail) == IF Truthy(userEmail) THEN ToStr(userEmail) ELSE ""

\* analyzeFile up to its await, called with the given user, modal, buttons
\* and calls in flight: what it leaves of the last three.
AnalyzeFileFrom(user, modal, dis, bag) ==
    IF LoginRequired(user)
    THEN [loginModal |-> TRUE, disabled |-> dis, reqs |-> bag]
    ELSE IF selectedFile = <<>>
    THEN [loginModal |-> modal, disabled |-> dis, reqs |-> bag]
    ELSE IF FileTooLargeToAnalyze(selectedFile[1])
    THEN [loginModal |-> modal, disabled |-> dis, reqs |-> bag]
    ELSE [loginModal |-> modal,
          disabled |-> [dis EXCEPT !["analyze-file-btn"] = TRUE],
          reqs |-> Issue(bag, NewRequest("/analyze-file",
                                         <<UserEmailOrEmpty(GetField(user, "email"))>>,
                                         selectedFile))]

\* The page is opened with the given record in local storage: initializeApp
\* has run and its health check, which changes nothing here, has ended.
\* Whether the markup has the analyze-file button disabled at first is not
\* in the repository.
PageInit ==
    /\ retryAttempts = RetryAttempts
    /\ retryDelay = RetryDelay
    /\ pc = "idle"
    /\ options = [headers |-> EmptyHeaders, body |-> "none"]
    /\ finalOptions = [headers |-> EmptyHeaders, body |-> "none"]
    /\ attempt = 0
    /\ events = <<>>
    /\ response = <<>>
    /\ error = <<>>
    /\ outcome = Pending
    /\ baseURL = DetectBaseURL(DevLocation)
    /\ NoConcurrentCalls
    /\ NoSide
    /\ storedUser \in StoredUsers
    /\ currentUser = CheckUserSession(storedUser)
    /\ loginModal = FALSE
    /\ selectedFile = <<>>
    /\ \E b \in BOOLEAN :
          disabled = [[x \in Buttons |-> FALSE] EXCEPT !["analyze-file-btn"] = b]
    /\ reqs = EmptyBag

\* The page is reloaded: the calls in flight die with the old page, local
\* storage stays.
PageLoad ==
    /\ currentUser' = CheckUserSession(storedUser)
    /\ loginModal' = FALSE
    /\ selectedFile' = <<>>
    /\ \E b \in BOOLEAN :
          disabled' = [[x \in Buttons |-> FALSE] EXCEPT !["analyze-file-btn"] = b]
    /\ reqs' = EmptyBag
    /\ UNCHANGED <<storedUser, offPageVars>>

ShowLoginModal ==
    /\ loginModal' = TRUE
    /\ UNCHANGED <<currentUser, storedUser, selectedFile, disabled, reqs, offPageVars>>

CloseLoginModal ==
    /\ loginModal' = FALSE
    /\ UNCHANGED <<currentUser, storedUser, selectedFile, disabled, reqs, offPageVars>>

\* A file of the given size is picked or dropped.
HandleFileSelect(size) ==
    /\ IF FileTooLargeToSelect(size)
       THEN /\ selectedFile' = <<>>
            /\ UNCHANGED disabled
       ELSE /\ selectedFile' = <<size>>
            /\ disabled' = [disabled EXCEPT !["analyze-file-btn"] = FALSE]
    /\ UNCHANGED <<currentUser, storedUser, loginModal, reqs, offPageVars>>

AnalyzeFile ==
    LET after == AnalyzeFileFrom(currentUser, loginModal, disabled, reqs) IN
    /\ loginModal' = after.loginModal
    /\ disabled' = after.disabled
    /\ reqs' = after.reqs
    /\ UNCHANGED <<currentUser, storedUser, selectedFile, offPageVars>>

\* analyzeText behind the login test of analyzeFile.
AnalyzeTextLoginGated(len) ==
    /\ IF currentUser = Null
       THEN /\ loginModal' = TRUE
            /\ UNCHANGED <<disabled, reqs>>
       ELSE /\ UNCHANGED <<loginModal, disabled, reqs>>
    /\ UNCHANGED <<currentUser, storedUser, selectedFile, offPageVars>>

\* analyzeText on a text of the given length after trim().
AnalyzeText(len) ==
    /\ IF len = 0 \/ len > 50000
       THEN UNCHANGED <<disabled, reqs>>
       ELSE /\ disabled' = [disabled EXCEPT !["analyze-text-btn"] = TRUE]
            /\ reqs' = Issue(reqs, NewRequest("/analyze-text",
                                              IF Truthy(currentUser)
                                              THEN <<ToStr(GetField(currentUser, "email"))>>
                                              ELSE <<"">>,
                                              <<>>))
    /\ UNCHANGED <<currentUser, storedUser, loginModal, selectedFile, offPageVars>>

HandleChatMessage(typed) ==
    /\ IF Trim(typed) = ""
       THEN UNCHANGED <<disabled, reqs>>
       ELSE /\ disabled' = [disabled EXCEPT !["send-chat-btn"] = TRUE]
            /\ reqs' = Issue(reqs, NewRequest("/chat", <<>>, <<>>))
    /\ UNCHANGED <<currentUser, storedUser, loginModal, selectedFile, offPageVars>>

\* handleLogin sending whatever was typed.
HandleLoginWithoutValidation(email) ==
    /\ disabled' = [disabled EXCEPT !["login-btn"] = TRUE]
    /\ reqs' = Issue(reqs, NewRequest("/register", <<>>, <<>>))
    /\ UNCHANGED <<currentUser, storedUser, loginModal, selectedFile, offPageVars>>

\* handleLogin up to its await.
HandleLogin(email) ==
    /\ IF email = "" \/ ~IsValidEmail(email)
       THEN UNCHANGED <<disabled, reqs>>
       ELSE /\ disabled' = [disabled EXCEPT !["login-btn"] = TRUE]
            /\ reqs' = Issue(reqs, NewRequest("/register", <<>>, <<>>))
    /\ UNCHANGED <<currentUser, storedUser, loginModal, selectedFile, offPageVars>>

\* logout that forgets the user in memory only.
LogoutKeepsStoredUser ==
    /\ currentUser' = Null
    /\ UNCHANGED <<storedUser, loginModal, selectedFile, disabled, reqs, offPageVars>>

Logout ==
    /\ currentUser' = Null
    /\ storedUser' = Null
    /\ UNCHANGED <<loginModal, selectedFile, disabled, reqs, offPageVars>>

\* The button the caller of an endpoint enables again in its finally block.
ButtonOf(endpoint) ==
    CASE endpoint = "/analyze-file" -> "analyze-file-btn"
      [] endpoint = "/analyze-text" -> "analyze-text-btn"
      [] endpoint = "/chat" -> "send-chat-btn"
      [] endpoint = "/register" -> "login-btn"

\* The call rq has ended, returning `value` or throwing: its caller goes on
\* after the await. Of the callers only handleLogin changes the session, on a
\* payload with a truthy success, and then it calls analyzeFile when a file
\* is selected.
Settle(rq, threw, value) ==
    LET rest == Drop(reqs, rq) IN
    IF rq.endpoint = "/register" /\ ~threw /\ Truthy(GetField(value, "success"))
    THEN LET user == Obj([email |-> GetField(value, "email")])
             after == IF selectedFile # <<>>
                      THEN AnalyzeFileFrom(user, FALSE, disabled, rest)
                      ELSE [loginModal |-> FALSE, disabled |-> disabled, reqs |-> rest]
         IN /\ currentUser' = user
            /\ storedUser' = Str(Stringify(user))
            /\ loginModal' = after.loginModal
            /\ disabled' = [after.disabled EXCEPT !["login-btn"] = FALSE]
            /\ reqs' = after.reqs
            /\ UNCHANGED <<selectedFile, offPageVars>>
    ELSE /\ reqs' = rest
         /\ disabled' = [disabled EXCEPT ![ButtonOf(rq.endpoint)] = FALSE]
         /\ UNCHANGED <<currentUser, storedUser, loginModal, selectedFile, offPageVars>>

\* The catch block of makeRequest for the call rq.
PageCatch(rq, e) ==
    IF IsClientError(e) \/ LastAttempt(rq.attempt)
    THEN Settle(rq, TRUE, e)
    ELSE /\ reqs' = Issue(Drop(reqs, rq), [rq EXCEPT !.pc = "sleeping"])
         /\ UNCHANGED <<currentUser, storedUser, loginModal, selectedFile, disabled,
                        offPageVars>>

PageFetchResolves(rq, r) ==
    /\ rq.pc = "fetching"
    /\ IF ResponseOk(r)
       THEN Settle(rq, FALSE, ParsePayload(r))
       ELSE PageCatch(rq, ResponseError(r))

PageFetchRejects(rq) ==
    /\ rq.pc = "fetching"
    /\ PageCatch(rq, TransportError)

\* The backoff wait of the call rq is over: its next attempt is issued.
PageTimerFires(rq) ==
    /\ rq.pc = "sleeping"
    /\ reqs' = Issue(Drop(reqs, rq), [rq EXCEPT !.pc = "fetching", !.attempt = @ + 1])
    /\ UNCHANGED <<currentUser, storedUser, loginModal, selectedFile, disabled, offPageVars>>

\* What the user and the network can do. A click needs its button enabled;
\* the Enter key in the chat input and in the email input calls the handler
\* whatever the state of the button (lines 503-508, 516-521); showLoginModal
\* and logout are called from the markup.
PageNext ==
    \/ PageLoad
    \/ ShowLoginModal
    \/ CloseLoginModal
    \/ \E size \in FileSizes : HandleFileSelect(size)
    \/ ~disabled["analyze-file-btn"] /\ Room /\ AnalyzeFile
    \/ \E len \in TextLengths : ~disabled["analyze-text-btn"] /\ Room /\ AnalyzeText(len)
    \/ \E typed \in ChatInputs : ~disabled["send-chat-btn"] /\ Room /\ HandleChatMessage(typed)
    \/ \E typed \in ChatInputs : Room /\ HandleChatMessage(typed)
    \/ \E email \in EmailInputs : ~disabled["login-btn"] /\ Room /\ HandleLogin(email)
    \/ \E email \in EmailInputs : Room /\ HandleLogin(email)
    \/ Logout
    \/ \E rq \in InFlight : \E r \in PageResponses(rq.endpoint) : PageFetchResolves(rq, r)
    \/ \E rq \in InFlight : PageFetchRejects(rq)
    \/ \E rq \in InFlight : PageTimerFires(rq)

PageSpec == PageInit /\ [][PageNext]_vars

----------------------------------------------------------------------------
(* The classification of errors, detectErrorType.                          *)

\* What the rest of the model leaves alone while an error is classified.
offReportVars == <<retryAttempts, retryDelay, baseURL, pc, options, finalOptions, attempt,
                   events, response, error, outcome, concurrentVars, pageVars, languageVars>>

\* The messages of the errors put to detectErrorType.
ErrorMessages ==
    { "", "Failed to fetch", "Failed to fetch the file", "Server error 503", "bad email",
      "Analysis failed", "File too large", "File too large: the file exceeds 10MB",
      "Unsupported file format", "Unknown format", "Invalid File",
      "Please login to analyze a file", "authentication expired" }

\* message.includes(needle), for the needles of detectErrorType.
Includes(message, needle) ==
    CASE needle = "Failed to fetch" ->
            message \in {"Failed to fetch", "Failed to fetch the file"}
      [] needle = "File too large" ->
            message \in {"File too large", "File too large: the file exceeds 10MB"}
      [] needle = "login" -> message \in {"Please login to analyze a file"}
      [] needle = "authentication" -> message \in {"authentication expired"}
      [] needle = "file" ->
            message \in {"Failed to fetch the file", "File too large: the file exceeds 10MB",
                         "Unsupported file format", "Please login to analyze a file"}
      [] needle = "format" -> message \in {"Unsupported file format", "Unknown format"}
      [] needle = "NetworkError" -> message \in {}

\* The errors: null, or an Error, a TypeError or an APIError with a message.
ErrorValues ==
    {Null} \cup [name : {"Error", "TypeError", "APIError"}, message : ErrorMessages]

\* The second argument: null (the default), or a response with its status.
ResponseValues == {Null} \cup [status : {200, 401, 413, 415, 500, 503}]

\* detectErrorType looking for 'file' only.
DetectErrorTypeWithoutFormat(e, r) ==
    IF e # Null /\ (Includes(e.message, "Failed to fetch") \/ e.name = "TypeError")
    THEN "network_error"
    ELSE IF r # Null /\ r.status >= 500 THEN "server_error"
    ELSE IF r # Null /\ r.status = 413 THEN "file_too_large"
    ELSE IF r # Null /\ r.status = 401 THEN "login_required"
    ELSE IF r # Null /\ r.status = 415 THEN "invalid_file"
    ELSE IF e # Null /\ e.message # "" /\ Includes(e.message, "File too large")
    THEN "file_too_large"
    ELSE IF e # Null /\ e.message # ""
            /\ (Includes(e.message, "login") \/ Includes(e.message, "authentication"))
    THEN "login_required"
    ELSE IF e # Null /\ e.message # "" /\ Includes(e.message, "file")
    THEN "invalid_file"
    ELSE "analysis_failed"

\* detectErrorType, lines 2003-2022.
DetectErrorType(e, r) ==
    IF e # Null /\ (Includes(e.message, "Failed to fetch") \/ e.name = "TypeError")
    THEN "network_error"
    ELSE IF r # Null /\ r.status >= 500 THEN "server_error"
    ELSE IF r # Null /\ r.status = 413 THEN "file_too_large"
    ELSE IF r # Null /\ r.status = 401 THEN "login_required"
    ELSE IF r # Null /\ r.status = 415 THEN "invalid_file"
    ELSE IF e # Null /\ e.message # "" /\ Includes(e.message, "File too large")
    THEN "file_too_large"
    ELSE IF e # Null /\ e.message # ""
            /\ (Includes(e.message, "login") \/ Includes(e.message, "authentication"))
    THEN "login_required"
    ELSE IF e # Null /\ e.message # ""
            /\ (Includes(e.message, "file") \/ Includes(e.message, "format"))
    THEN "invalid_file"
    ELSE "analysis_failed"

\* One call of detectErrorType.
Detect(e, r) ==
    /\ detected' = [called |-> TRUE, error |-> e, response |-> r,
                    type |-> DetectErrorType(e, r)]
    /\ UNCHANGED <<shown, offReportVars>>

DetectNext == \E e \in ErrorValues : \E r \in ResponseValues : Detect(e, r)

DetectSpec == Init /\ [][DetectNext]_vars

----------------------------------------------------------------------------
(* The callers of an analysis after their await: analyzeFile and           *)
(* analyzeText show the results or an error panel.                         *)

\* The call has ended.
Terminated == pc \in {"returned", "thrown"}

\* What reading a property of the value throws when the value is null or
\* undefined.
NullPropertyError == [name |-> "TypeError", message |-> "Cannot read properties of null"]

\* new Error(message)
NewError(message) == [name |-> "Error", message |-> ToStr(message)]

\* The catch block of analyzeText, lines 665-681.
TextErrorType(e) ==
    IF e.name = "APIError"
    THEN IF e.status >= 500 THEN "server_error" ELSE "analysis_failed"
    ELSE IF Includes(e.message, "Failed to fetch") \/ Includes(e.message, "NetworkError")
    THEN "network_error"
    ELSE "analysis_failed"

\* analyzeFile after `await analyzeFileAPI(...)`, lines 608-622: the error
\* it hands to detectErrorType, or <<>> when it shows the results.
FileErrorToDetect ==
    IF pc = "thrown" THEN <<outcome.error>>
    ELSE IF Truthy(outcome.value) /\ Truthy(GetField(outcome.value, "success")) THEN <<>>
    ELSE IF outcome.value \in {Null, Undefined} THEN <<NullPropertyError>>
    ELSE IF Truthy(GetField(outcome.value, "error"))
    THEN <<NewError(GetField(outcome.value, "error"))>>
    ELSE <<NewError(Str("Analysis failed"))>>

AnalyzeFileAfterAwait ==
    /\ Terminated
    /\ shown = NoPanel
    /\ IF FileErrorToDetect = <<>>
       THEN /\ shown' = [flow |-> "analyzeFile", type |-> "results"]
            /\ UNCHANGED detected
       ELSE /\ detected' = [called |-> TRUE, error |-> FileErrorToDetect[1], response |-> Null,
                            type |-> DetectErrorType(FileErrorToDetect[1], Null)]
            /\ shown' = [flow |-> "analyzeFile",
                         type |-> DetectErrorType(FileErrorToDetect[1], Null)]
    /\ UNCHANGED offReportVars

\* analyzeText after `await analyzeTextAPI(...)`, lines 652-681.
AnalyzeTextAfterAwait ==
    /\ Terminated
    /\ shown = NoPanel
    /\ shown' = [flow |-> "analyzeText",
                 type |-> IF pc = "thrown" THEN TextErrorType(outcome.error)
                          ELSE IF Truthy(outcome.value)
                                  /\ Truthy(GetField(outcome.value, "success"))
                          THEN "results"
                          ELSE "analysis_failed"]
    /\ UNCHANGED <<detected, offReportVars>>

CallerNext ==
    \/ Next
    \/ AnalyzeFileAfterAwait
    \/ AnalyzeTextAfterAwait

CallerSpec == Init /\ [][CallerNext]_vars

----------------------------------------------------------------------------
(* The language of the page and its voice input.                          *)

\* What the rest of the model leaves alone while the language changes.
offLanguageVars == <<retryAttempts, retryDelay, baseURL, pc, options, finalOptions, attempt,
                     events, response, error, outcome, concurrentVars, pageVars, reportVars>>

\* The global currentLanguage of line 15, which nothing assigns.
currentLanguage == "en"

\* The keys of ENHANCED_LANGUAGE_CONFIG and the code of each entry.
SupportedLanguages == {"en", "hi", "ta"}
ConfigCode(lang) ==
    CASE lang = "en" -> "en-US"
      [] lang = "hi" -> "hi-IN"
      [] lang = "ta" -> "ta-IN"

\* The codes put to changeLanguage and found in the store: the supported
\* ones, one the table lacks, and one that names a property every object
\* inherits.
LanguageCodes == SupportedLanguages \cup {"fr", "constructor"}
StoredLanguages == {<<>>} \cup {<<lang>> : lang \in LanguageCodes}

\* The test `ENHANCED_LANGUAGE_CONFIG[langCode]` on the object literal of
\* line 34: an own key yields its entry, an inherited one (constructor)
\* yields Object, both truthy.
HasConfig(langCode) == langCode \in SupportedLanguages \cup {"constructor"}

\* updateAllLanguageSettings throws: the config found is not an entry of
\* the table, so config.ui is undefined and updateUIElements reads
\* config.ui.chatPlaceholder for the chat input.
SettingsThrow(lang) == lang \notin SupportedLanguages

\* new LanguageManager() inside the try of initializeApp: the manager, or
\* null when the constructor throws.
NewLanguageManager(saved) ==
    LET lang == IF saved # <<>> /\ saved[1] # "" /\ HasConfig(saved[1])
                THEN saved[1] ELSE "en"
    IN IF SettingsThrow(lang) THEN <<>> ELSE << [currentLanguage |-> lang] >>

\* updateSpeechRecognition(config).
UpdateSpeechRecognition(rec, code) ==
    IF rec # <<>> THEN << [rec[1] EXCEPT !.lang = code] >> ELSE rec

\* The page once it has loaded: the manager is built from the store, then
\* initializeSpeechRecognition creates the recognizer (none in a browser
\* without SpeechRecognition), then the callback is registered.
LanguageLoaded ==
    /\ languageManager' = NewLanguageManager(storedLanguage')
    /\ recognition' \in {<<>>, << [lang |-> "en-US", phase |-> "idle"] >>}
    /\ isListening' = FALSE
    /\ restartTimers' = 0
    /\ changed' = NoChange

LanguageInit ==
    /\ retryAttempts = RetryAttempts
    /\ retryDelay = RetryDelay
    /\ pc = "idle"
    /\ options = [headers |-> EmptyHeaders, body |-> "none"]
    /\ finalOptions = [headers |-> EmptyHeaders, body |-> "none"]
    /\ attempt = 0
    /\ events = <<>>
    /\ response = <<>>
    /\ error = <<>>
    /\ outcome = Pending
    /\ baseURL = DetectBaseURL(DevLocation)
    /\ NoConcurrentCalls
    /\ NoPage
    /\ NoReport
    /\ storedLanguage \in StoredLanguages
    /\ languageManager = NewLanguageManager(storedLanguage)
    /\ recognition \in {<<>>, << [lang |-> "en-US", phase |-> "idle"] >>}
    /\ isListening = FALSE
    /\ restartTimers = 0
    /\ changed = NoChange

\* The page is loaded again in the same browser.
LanguageLoad ==
    /\ storedLanguage' = storedLanguage
    /\ LanguageLoaded
    /\ (recognition = <<>>) = (recognition' = <<>>)
    /\ UNCHANGED offLanguageVars

\* languageManager.changeLanguage(langCode), with the callback of lines
\* 2221-2236 run by notifyCallbacks; on a null manager the call throws.
ChangeLanguage(langCode) ==
    /\ IF languageManager = <<>>
       THEN /\ changed' = [langCode |-> langCode, returned |-> "threw", notified |-> FALSE]
            /\ UNCHANGED <<languageManager, storedLanguage, recognition, isListening,
                           restartTimers>>
       ELSE IF ~HasConfig(langCode)
       THEN /\ changed' = [langCode |-> langCode, returned |-> "false", notified |-> FALSE]
            /\ UNCHANGED <<languageManager, storedLanguage, recognition, isListening,
                           restartTimers>>
       ELSE /\ languageManager' = << [languageManager[1] EXCEPT !.currentLanguage = langCode] >>
            /\ storedLanguage' = <<langCode>>
            /\ IF SettingsThrow(langCode)
               THEN /\ changed' = [langCode |-> langCode, returned |-> "threw",
                                   notified |-> FALSE]
                    /\ UNCHANGED <<recognition, isListening, restartTimers>>
               ELSE LET updated == UpdateSpeechRecognition(recognition, ConfigCode(langCode))
                        differs == updated # <<>> /\ updated[1].lang # ConfigCode(langCode)
                    IN /\ recognition' =
                            IF differs
                            THEN << [updated[1] EXCEPT !.lang = ConfigCode(langCode)] >>
                            ELSE updated
                       /\ isListening' = IF differs /\ isListening THEN FALSE ELSE isListening
                       /\ restartTimers' = IF differs /\ isListening
                                           THEN restartTimers + 1 ELSE restartTimers
                       /\ changed' = [langCode |-> langCode, returned |-> "true",
                                      notified |-> TRUE]
    /\ UNCHANGED offLanguageVars

\* startVoiceInput: the language is set from the global currentLanguage and
\* start() is called, which throws on a recognizer that is not idle.
StartVoiceInput ==
    recognition' =
        IF recognition = <<>> THEN recognition
        ELSE << [lang |-> ConfigCode(currentLanguage),
                 phase |-> IF recognition[1].phase = "idle" THEN "starting"
                           ELSE recognition[1].phase] >>

\* Voice input is started or stopped: by toggleVoiceInput (the microphone
\* button), or by the timer the callback sets.
VoiceInput(caller) ==
    /\ IF caller = "timer"
       THEN /\ restartTimers > 0
            /\ restartTimers' = restartTimers - 1
            /\ StartVoiceInput
            /\ UNCHANGED isListening
       ELSE /\ UNCHANGED restartTimers
            /\ IF recognition = <<>> THEN UNCHANGED <<recognition, isListening>>
               ELSE IF ~isListening THEN StartVoiceInput /\ UNCHANGED isListening
               ELSE isListening' = FALSE /\ UNCHANGED recognition
    /\ UNCHANGED <<languageManager, storedLanguage, changed, offLanguageVars>>

\* The recognizer reports that it has started: onstart.
OnStart ==
    /\ recognition # <<>>
    /\ recognition[1].phase = "starting"
    /\ recognition' = << [recognition[1] EXCEPT !.phase = "running"] >>
    /\ isListening' = TRUE
    /\ UNCHANGED <<languageManager, storedLanguage, restartTimers, changed, offLanguageVars>>

\* The recognizer ends, by itself, after stop() or on an error: onend, onerror.
OnEnd ==
    /\ recognition # <<>>
    /\ recognition[1].phase # "idle"
    /\ recognition' = << [recognition[1] EXCEPT !.phase = "idle"] >>
    /\ isListening' = FALSE
    /\ UNCHANGED <<languageManager, storedLanguage, restartTimers, changed, offLanguageVars>>

LanguageNext ==
    \/ LanguageLoad
    \/ \E langCode \in LanguageCodes : ChangeLanguage(langCode)
    \/ \E caller \in {"button", "timer"} : VoiceInput(caller)
    \/ OnStart
    \/ OnEnd

LanguageSpec == LanguageInit /\ [][LanguageNext]_vars

----------------------------------------------------------------------------
(* Reading the event history.                                              *)

Count(kind) == Cardinality({i \in DOMAIN events : events[i].ev = kind})

IsSuccess(e) == e.ev = "response" /\ e.n >= 200 /\ e.n <= 299
IsFailure(e) == e.ev = "reject" \/ (e.ev = "response" /\ ~(e.n >= 200 /\ e.n <= 299))
IsTransient(e) == e.ev = "reject" \/ (e.ev = "response" /\ e.n >= 500)
IsAnswer(e) == e.ev \in {"response", "reject"}
IsSleep(e) == e.ev = "sleep"

Failures == Cardinality({i \in DOMAIN events : IsFailure(events[i])})
Answers == SelectSeq(events, IsAnswer)
Sleeps == SelectSeq(events, IsSleep)
FetchesBefore(i) == Cardinality({j \in 1..i : events[j].ev = "fetch"})

\* Every answer so far has property P, and there is at least one.
OnlyServerErrors ==
    /\ Answers # <<>>
    /\ \A i \in DOMAIN Answers : Answers[i].ev = "response" /\ Answers[i].n >= 500
OnlyTransient ==
    /\ Answers # <<>>
    /\ \A i \in DOMAIN Answers : IsTransient(Answers[i])
OnlyRejects ==
    /\ Answers # <<>>
    /\ \A i \in DOMAIN Answers : Answers[i].ev = "reject"

----------------------------------------------------------------------------
(* C1: a response with status in 200..299 ends the call: it is the last    *)
(* event (no request and no backoff wait follows it) and makeRequest       *)
(* returns the payload parsed from that very response.                     *)
Thm_C1_SuccessReturnsPayload ==
    /\ \A i \in DOMAIN events :
          IsSuccess(events[i]) =>
             /\ i = Len(events)
             /\ pc = "returned"
             /\ response # <<>>
             /\ response[1].status = events[i].n
             /\ outcome = [kind |-> "returned", value |-> ParsePayload(response[1])]
    /\ (pc = "returned" /\ response # <<>> /\ response[1].bodyOk
          /\ response[1].body = BodySuccess)
       => outcome.value = Obj([success |-> Bool(TRUE)])

Wit_C1_SuccessOnFirstAttempt ==
    /\ pc = "returned"
    /\ Count("fetch") = 1
    /\ response # <<>> /\ response[1].status = 299
    /\ outcome.value = Obj([success |-> Bool(TRUE)])

(* C2: a response with status in 400..499 ends the call with an APIError   *)
(* of that status: no wait and no request follows it; when it is the first *)
(* response exactly one request was made; {"error":"bad email"} with 400   *)
(* fails with message "bad email" and status 400.                          *)
Thm_C2_ClientErrorFailsAtOnce ==
    /\ \A i \in DOMAIN events :
          (events[i].ev = "response" /\ events[i].n >= 400 /\ events[i].n <= 499) =>
             /\ i = Len(events)
             /\ pc = "thrown"
             /\ outcome.kind = "thrown"
             /\ outcome.error.name = "APIError"
             /\ outcome.error.status = events[i].n
             /\ (i = 2 => Count("fetch") = 1 /\ Count("sleep") = 0)
    /\ (response # <<>> /\ attempt = 0 /\ response[1].status = 400
          /\ response[1].bodyOk /\ response[1].body = BodyBadEmail)
       => /\ pc = "thrown"
          /\ outcome.kind = "thrown"
          /\ outcome.error.message = "bad email"
          /\ outcome.error.status = 400
          /\ Count("fetch") = 1

Wit_C2_BadEmailOnFirstAttempt ==
    /\ pc = "thrown"
    /\ Len(events) = 2
    /\ response # <<>> /\ response[1].status = 400 /\ response[1].body = BodyBadEmail
    /\ outcome.error.message = "bad email"

(* C3: never more than retryAttempts + 1 requests are made; while every    *)
(* answer is a response with status >= 500 the call keeps retrying, and it *)
(* fails only after retryAttempts + 1 = 3 requests, with the error built   *)
(* from the last response.                                                 *)
Thm_C3_ServerErrorsRetriedThenFail ==
    /\ Count("fetch") <= retryAttempts + 1
    /\ OnlyServerErrors =>
          /\ pc \in {"fetching", "sleeping", "thrown"}
          /\ pc = "thrown" =>
                /\ Count("fetch") = retryAttempts + 1
                /\ Count("fetch") = 3
                /\ Len(Answers) = 3
                /\ response # <<>>
                /\ response[1].status = events[Len(events)].n
                /\ outcome = [kind |-> "thrown", error |-> ResponseError(response[1])]
                /\ outcome.error.status = Answers[3].n

Wit_C3_ThreeServerErrors ==
    /\ pc = "thrown"
    /\ Answers = <<Ev("response", 500), Ev("response", 503), Ev("response", 500)>>
    /\ outcome.error.status = 500

(* C4: a call that returns did one backoff wait per failed attempt, k of   *)
(* them with k <= retryAttempts, and returns the payload of the 2xx; a     *)
(* call whose failures are all transient (5xx or transport failure) does   *)
(* not give up before retryAttempts + 1 attempts; 503, 503, 200 with       *)
(* {"success":true} returns {"success":true} after two waits.              *)
Thm_C4_SuccessAfterTransientFailures ==
    /\ pc = "returned" =>
          /\ Count("sleep") = Failures
          /\ Count("fetch") = Failures + 1
          /\ Failures <= retryAttempts
          /\ response # <<>>
          /\ IsSuccess(events[Len(events)])
          /\ outcome.value = ParsePayload(response[1])
    /\ (OnlyTransient /\ pc = "thrown") => Failures = retryAttempts + 1
    /\ (Answers = <<Ev("response", 503), Ev("response", 503), Ev("response", 200)>>
          /\ response[1].bodyOk /\ response[1].body = BodySuccess)
       => /\ pc = "returned"
          /\ outcome.value = Obj([success |-> Bool(TRUE)])
          /\ Count("sleep") = 2

Wit_C4_TwoFailuresThenSuccess ==
    /\ pc = "returned"
    /\ Answers = <<Ev("response", 503), Ev("response", 503), Ev("response", 200)>>
    /\ Count("sleep") = 2
    /\ outcome.value = Obj([success |-> Bool(TRUE)])

(* C5: every backoff wait directly follows a failed attempt, lasts         *)
(* retryDelay * (i + 1) ms for the attempt of index i (1000, then 2000),   *)
(* and is followed by the next request; a call that has failed ends on the *)
(* failed attempt itself, with no wait after it.                           *)
Thm_C5_LinearBackoff ==
    /\ \A i \in DOMAIN events :
          IsSleep(events[i]) =>
             /\ i > 1
             /\ IsFailure(events[i - 1])
             /\ events[i].n = retryDelay * ((FetchesBefore(i) - 1) + 1)
             /\ i < Len(events) => events[i + 1].ev = "fetch"
             /\ i = Len(events) => pc = "sleeping"
    /\ \A j \in DOMAIN Sleeps : Sleeps[j].n = 1000 * j
    /\ Len(Sleeps) <= retryAttempts
    /\ pc = "thrown" => IsFailure(events[Len(events)])

Wit_C5_BothWaits ==
    /\ pc = "thrown"
    /\ Sleeps = <<Ev("sleep", 1000), Ev("sleep", 2000)>>

(* C6 as claimed: when every attempt is rejected by the transport, the     *)
(* error thrown in the end is an APIError carrying a status code.          *)
Cex_C6_TransportFailureIsAPIError ==
    (pc = "thrown" /\ OnlyRejects) =>
        /\ outcome.error.name = "APIError"
        /\ "status" \in DOMAIN outcome.error

(* C6 as amended: when every attempt is rejected by the transport, the     *)
(* call retries with the waits 1000 and 2000 and after three requests      *)
(* throws the rejection of the last fetch itself, which is no APIError and *)
(* has no status and no payload.                                           *)
Thm_C6_TransportFailureRethrown ==
    OnlyRejects =>
        /\ pc \in {"fetching", "sleeping", "thrown"}
        /\ pc = "thrown" =>
              /\ Count("fetch") = retryAttempts + 1
              /\ Sleeps = <<Ev("sleep", 1000), Ev("sleep", 2000)>>
              /\ outcome = [kind |-> "thrown", error |-> TransportError]
              /\ outcome.error.name # "APIError"
              /\ DOMAIN outcome.error = {"name", "message"}

Wit_C6_ThreeRejections ==
    /\ pc = "thrown"
    /\ Answers = <<Ev("reject", 0), Ev("reject", 1), Ev("reject", 2)>>
    /\ outcome.error.name = "TypeError"

(* C7 as claimed: once a request with a FormData body has been issued, the *)
(* headers handed to fetch hold no Content-Type header, under any spelling *)
(* of the header name.                                                     *)
Cex_C7_FormDataWithoutContentType ==
    (pc # "idle" /\ finalOptions.body = "FormData") =>
        \A k \in DOMAIN finalOptions.headers : LowerCase(k) # "content-type"

HasErrorField(p) == p.t = "object" /\ "error" \in DOMAIN p.v

(* C9 as claimed: the error built from a non-2xx response has the status   *)
(* of the response, the parsed body as data, and as message the body's     *)
(* error field whenever the body has one, else "Server error <status>".    *)
Cex_C9_MessageFromErrorFieldIfPresent ==
    (error # <<>> /\ response # <<>>) =>
        LET p == ParsePayload(response[1])
        IN /\ error[1].status = response[1].status
           /\ error[1].data = p
           /\ error[1].message =
                 IF HasErrorField(p) THEN ToStr(p.v["error"])
                 ELSE "Server error " \o ToString(response[1].status)

(* C9 as amended: the message is the body's error field when the field is  *)
(* present and truthy (a non-empty string as it is, a non-zero number      *)
(* converted to a string); when the field is absent or falsy (the empty    *)
(* string), or the payload is no object, it is "Server error <status>".    *)
Thm_C9_MessageFromTruthyErrorField ==
    (error # <<>> /\ response # <<>>) =>
        LET r == response[1]
            p == ParsePayload(r)
            generic == "Server error " \o ToString(r.status)
        IN /\ error[1].name = "APIError"
           /\ error[1].status = r.status
           /\ error[1].data = p
           /\ error[1].message =
                 IF HasErrorField(p) /\ Truthy(p.v["error"]) THEN ToStr(p.v["error"])
                 ELSE generic
           /\ (r.bodyOk /\ r.body = BodyBadEmail) => error[1].message = "bad email"
           /\ (r.bodyOk /\ r.body = BodyNumError) => error[1].message = "42"
           /\ (r.bodyOk /\ r.body = BodyEmptyError) => error[1].message = generic
           /\ (r.body \in {BodySuccess, BodyText, BodyEmpty}) => error[1].message = generic

Wit_C9_EmptyErrorFieldGivesGenericMessage ==
    /\ error # <<>>
    /\ response # <<>>
    /\ response[1].body = BodyEmptyError
    /\ response[1].status = 500
    /\ error[1].message = "Server error 500"

\* The response declares no JSON content type and its body, read without
\* failure, is not JSON.
UnparseableText(r) ==
    /\ ~IncludesApplicationJson(r.contentType)
    /\ r.bodyOk
    /\ ~JSONParse(r.body).ok

(* C10 as claimed: a 2xx response without a JSON content type whose body   *)
(* is not JSON makes the call return exactly the body text.                *)
Cex_C10_UnparseableBodyReturnedAsText ==
    (pc = "returned" /\ response # <<>> /\ UnparseableText(response[1])) =>
        outcome.value = Str(response[1].body)

(* C10 as amended: such a body is surfaced as the raw text when it is not  *)
(* empty, returned on a 2xx and as the data of the APIError otherwise; an  *)
(* empty body is surfaced as null; and a 2xx response always makes the     *)
(* call return, whatever its body: the only errors thrown are the APIError *)
(* of a non-2xx response and the rejection of fetch.                       *)
Thm_C10_NonEmptyUnparseableBodyAsText ==
    /\ (response # <<>> /\ UnparseableText(response[1])) =>
          LET r == response[1]
              surfaced == IF r.body = "" THEN Null ELSE Str(r.body)
          IN IF r.status >= 200 /\ r.status <= 299
             THEN pc = "returned" /\ outcome = [kind |-> "returned", value |-> surfaced]
             ELSE /\ error # <<>>
                  /\ error[1].name = "APIError"
                  /\ error[1].data = surfaced
    /\ (response # <<>> /\ response[1].status >= 200 /\ response[1].status <= 299)
          => pc = "returned"
    /\ pc = "thrown" =>
          \/ outcome.error.name = "APIError" /\ response # <<>>
                /\ ~(response[1].status >= 200 /\ response[1].status <= 299)
          \/ outcome.error = TransportError /\ events[Len(events)].ev = "reject"

Wit_C10_RawTextReturned ==
    /\ pc = "returned"
    /\ response # <<>>
    /\ response[1].contentType = "text/html; charset=utf-8"
    /\ outcome.value = Str(BodyText)

\* The response declares a JSON content type and its body, read without
\* failure, is not JSON.
MalformedJson(r) ==
    /\ IncludesApplicationJson(r.contentType)
    /\ r.bodyOk
    /\ ~JSONParse(r.body).ok

(* C11 as claimed: a 2xx response that declares application/json and has   *)
(* an invalid JSON body makes the call return the raw body text.           *)
Cex_C11_MalformedJsonReturnedAsText ==
    (pc = "returned" /\ response # <<>> /\ MalformedJson(response[1])) =>
        outcome.value = Str(response[1].body)

(* C11 as amended: a malformed body under a JSON content type is non-fatal *)
(* but has no raw-text fallback: on a 2xx the call returns null, on any    *)
(* other status the APIError has data null and the generic message; the    *)
(* body text is lost, and the call never fails because of the parsing.     *)
Thm_C11_MalformedJsonBecomesNull ==
    (response # <<>> /\ MalformedJson(response[1])) =>
        LET r == response[1]
        IN IF r.status >= 200 /\ r.status <= 299
           THEN pc = "returned" /\ outcome = [kind |-> "returned", value |-> Null]
           ELSE /\ error # <<>>
                /\ error[1].name = "APIError"
                /\ error[1].data = Null
                /\ error[1].message = "Server error " \o ToString(r.status)

Wit_C11_MalformedJsonReturnsNull ==
    /\ pc = "returned"
    /\ response # <<>>
    /\ response[1].contentType = "application/json"
    /\ response[1].body = BodyText
    /\ outcome.value = Null

(* C12: makeRequest returns only on a 2xx response, and then the payload   *)
(* of that response; a call that ends without a 2xx throws the error its   *)
(* last attempt caught, an APIError or the rejection of fetch; a failed    *)
(* attempt is never the silent end of a call; a body that cannot be read   *)
(* or parsed is the one failure that is absorbed (the call returns).       *)
Thm_C12_NoErrorSwallowed ==
    /\ pc = "returned" =>
          /\ events # <<>>
          /\ IsSuccess(events[Len(events)])
          /\ response # <<>>
          /\ outcome = [kind |-> "returned", value |-> ParsePayload(response[1])]
    /\ (Terminated /\ \A i \in DOMAIN events : ~IsSuccess(events[i])) =>
          /\ pc = "thrown"
          /\ error # <<>>
          /\ outcome = [kind |-> "thrown", error |-> error[1]]
          /\ outcome.error.name \in {"APIError", "TypeError"}
          /\ IsFailure(events[Len(events)])
    /\ \A i \in DOMAIN events :
          IsFailure(events[i]) =>
             \/ i = Len(events) /\ pc = "thrown"
             \/ i < Len(events) /\ IsSleep(events[i + 1])
    /\ (response # <<>> /\ ~response[1].bodyOk
          /\ response[1].status >= 200 /\ response[1].status <= 299)
       => pc = "returned" /\ outcome.value = Null

Wit_C12_ThrownAfterRejections ==
    /\ pc = "thrown"
    /\ Count("fetch") = 3
    /\ events[Len(events)].ev = "reject"
    /\ outcome.error = TransportError

\* The shape of the event history of a call.
Inv_C13_OneAttemptAtATime ==
    /\ Count("fetch") - Len(Answers) = (IF pc = "fetching" THEN 1 ELSE 0)
    /\ pc = "sleeping" => IsSleep(events[Len(events)])
    /\ \A i \in DOMAIN events :
          events[i].ev = "fetch" =>
             /\ events[i].n = FetchesBefore(i) - 1
             /\ events[i].n > 0 =>
                   /\ i >= 4
                   /\ IsSleep(events[i - 1])
                   /\ IsFailure(events[i - 2])
                   /\ events[i - 3] = Ev("fetch", events[i].n - 1)

(* C13: at most one request is in flight, and exactly one while the call   *)
(* awaits fetch; the requests are numbered 0, 1, 2 in the order issued;    *)
(* request k + 1 directly follows the backoff wait that follows the        *)
(* failure of request k, and is issued by the firing of that timer only.   *)
Thm_C13_AttemptsSequentialInOrder ==
    /\ []Inv_C13_OneAttemptAtATime
    /\ [][Len(events') > Len(events) /\ events'[Len(events')].ev = "fetch"
            => pc \in {"idle", "sleeping"}]_vars

Wit_C13_ThirdAttemptInFlight ==
    /\ pc = "fetching"
    /\ Len(events) = 7
    /\ events[7] = Ev("fetch", 2)
    /\ IsSleep(events[6])

\* The three terminal states of a call.
EndedInSuccess == pc = "returned" /\ events # <<>> /\ IsSuccess(events[Len(events)])
EndedInClientError ==
    /\ pc = "thrown"
    /\ events[Len(events)].ev = "response"
    /\ events[Len(events)].n >= 400 /\ events[Len(events)].n <= 499
EndedInExhaustedFailure ==
    /\ pc = "thrown"
    /\ IsFailure(events[Len(events)])
    /\ ~(events[Len(events)].ev = "response"
           /\ events[Len(events)].n >= 400 /\ events[Len(events)].n <= 499)
    /\ Count("fetch") = retryAttempts + 1

\* A call that has ended is in exactly one terminal state.
Inv_C16_OneTerminalState ==
    Terminated =>
        /\ EndedInSuccess \/ EndedInClientError \/ EndedInExhaustedFailure
        /\ ~(EndedInSuccess /\ EndedInClientError)
        /\ ~(EndedInSuccess /\ EndedInExhaustedFailure)
        /\ ~(EndedInClientError /\ EndedInExhaustedFailure)

(* C16: a call moves Attempting -> Success | ClientError | Retrying, and   *)
(* Retrying -> Attempting; a call that has ended is in exactly one of      *)
(* Success, ClientError, ExhaustedFailure and nothing happens after it;    *)
(* when the transport answers every request, a started call ends; and an   *)
(* awaited fetch is left only by an answer of the transport (there is no   *)
(* timeout and no cancellation), so without the answer the call never ends.*)
Thm_C16_CallStateMachineTerminates ==
    /\ []Inv_C16_OneTerminalState
    /\ [][/\ pc = "idle" => pc' = "fetching"
          /\ pc = "fetching" => pc' \in {"returned", "thrown", "sleeping"}
          /\ pc = "sleeping" => pc' = "fetching"
          /\ Terminated => (pc' = pc /\ events' = events)]_vars
    /\ [][pc = "fetching" =>
             /\ Len(events') > Len(events)
             /\ IsAnswer(events'[Len(events) + 1])]_vars
    /\ (pc = "fetching") ~> Terminated

Wit_C16_ExhaustedFailure ==
    /\ EndedInExhaustedFailure
    /\ Answers = <<Ev("response", 503), Ev("reject", 1), Ev("response", 304)>>

----------------------------------------------------------------------------
(* What a call does on its own, as a function of the answers it receives.  *)

Front(q) == SubSeq(q, 1, Len(q) - 1)

\* A 4xx answer, or any failure on the attempt of index retryAttempts, ends
\* the call; so does a 2xx.
EndsCall(x, a) ==
    \/ x.ev = "response" /\ x.n >= 200 /\ x.n <= 499 /\ ~(x.n >= 300 /\ x.n <= 399)
    \/ a = retryAttempts

\* The history of a call that has issued request a, has the history ev so far
\* and then receives the answers ans.
RECURSIVE AloneFrom(_, _, _)
AloneFrom(ans, a, ev) ==
    IF ans = <<>> THEN ev
    ELSE LET seen == Append(ev, Head(ans))
         IN IF EndsCall(Head(ans), a) THEN seen
            ELSE AloneFrom(Tail(ans), a + 1,
                           seen \o <<Ev("sleep", retryDelay * (a + 1)), Ev("fetch", a + 1)>>)

Alone(ans) == AloneFrom(ans, 0, <<Ev("fetch", 0)>>)

\* The single call of Spec follows that function.
Inv_SingleCallIsAlone ==
    pc # "idle" => events = (IF pc = "sleeping" THEN Front(Alone(Answers)) ELSE Alone(Answers))

CallAnswers(c) == SelectSeq(cevents[c], IsAnswer)

(* C14: whatever the interleaving of two calls on one client, each call's  *)
(* requests, backoff waits and outcome are those of a call running alone   *)
(* that receives the same answers: its history is a function of its own    *)
(* answers, and its outcome of its own last answer.                        *)
Thm_C14_ConcurrentCallsIndependent ==
    \A c \in Calls :
        cpc[c] # "idle" =>
            LET alone == Alone(CallAnswers(c))
                last == cevents[c][Len(cevents[c])]
            IN /\ cevents[c] = (IF cpc[c] = "sleeping" THEN Front(alone) ELSE alone)
               /\ cpc[c] = "fetching" <=> last.ev = "fetch"
               /\ cpc[c] = "sleeping" <=> last.ev = "sleep"
               /\ cpc[c] = "returned" =>
                     /\ IsSuccess(last)
                     /\ clast[c] # <<>> /\ clast[c][1].status = last.n
                     /\ coutcome[c] = [kind |-> "returned", value |-> ParsePayload(clast[c][1])]
               /\ cpc[c] = "thrown" =>
                     /\ IsFailure(last)
                     /\ coutcome[c] = [kind |-> "thrown",
                                       error |-> IF last.ev = "reject" THEN TransportError
                                                 ELSE ResponseError(clast[c][1])]

Wit_C14_TwoCallsInFlight ==
    /\ cpc[1] = "fetching" /\ Len(cevents[1]) = 7
    /\ cpc[2] = "sleeping" /\ Len(cevents[2]) = 3
    /\ cevents[2][3] = Ev("sleep", 1000)

----------------------------------------------------------------------------
(* Reading the calls in flight across one step of the page.                *)

\* The fetch of the call rq is issued by this step.
FetchIssued(rq) == rq.pc = "fetching" /\ CopiesIn(rq, reqs') > CopiesIn(rq, reqs)

\* The call rq as it was while it waited before its attempt.
Waiting(rq) == [rq EXCEPT !.pc = "sleeping", !.attempt = @ - 1]

----------------------------------------------------------------------------
(* C20: after initialization and through any interleaving of handleLogin,  *)
(* logout and page reload, currentUser is non-null exactly when a record   *)
(* is stored under 'myvakeel_user', and that record is the JSON of         *)
(* currentUser.                                                            *)
Thm_C20_StoredUserMirrorsCurrentUser ==
    /\ (currentUser # Null) <=> (storedUser # Null)
    /\ currentUser # Null => storedUser = Str(Stringify(currentUser))
    /\ storedUser # Null => JSONParse(storedUser.v).value = currentUser

\* A user is logged in while a text analysis started without a user is
\* still in flight: the login came after it, through handleLogin.
Wit_C20_LoggedInAfterAnonymousRequest ==
    /\ currentUser \in {Obj([email |-> Str(e)]) : e \in Emails}
    /\ storedUser = Str(Stringify(currentUser))
    /\ \E rq \in InFlight : rq.endpoint = "/analyze-text" /\ rq.userEmail = <<"">>

----------------------------------------------------------------------------
\* No file above the limit is selected or on its way to the server.
Inv_C19_NoLargeFileUploaded ==
    /\ selectedFile # <<>> => selectedFile[1] <= 10 * 1024 * 1024
    /\ \A rq \in InFlight : rq.file # <<>> => rq.file[1] <= 10 * 1024 * 1024

----------------------------------------------------------------------------
(* C18: with currentUser null, handleChatMessage on a non-empty query and  *)
(* analyzeText on a non-empty text of at most 50,000 characters issue      *)
(* their request, and neither opens the login modal.                       *)
Thm_C18_ChatAndTextNeedNoLogin ==
    /\ [][\A typed \in ChatInputs :
            (currentUser = Null /\ Trim(typed) # "" /\ HandleChatMessage(typed)) =>
                /\ \E rq \in BagToSet(reqs') :
                      FetchIssued(rq) /\ rq.endpoint = "/chat" /\ rq.attempt = 0
                /\ loginModal' = loginModal]_vars
    /\ [][\A len \in TextLengths :
            (currentUser = Null /\ len >= 1 /\ len <= 50000 /\ AnalyzeText(len)) =>
                /\ \E rq \in BagToSet(reqs') :
                      FetchIssued(rq) /\ rq.endpoint = "/analyze-text" /\ rq.attempt = 0
                /\ loginModal' = loginModal]_vars

\* Nobody is logged in, the login modal is closed, and a chat request and a
\* text analysis are in flight.
Wit_C18_AnonymousChatAndTextInFlight ==
    /\ currentUser = Null
    /\ ~loginModal
    /\ \E rq \in InFlight : rq.endpoint = "/chat"
    /\ \E rq \in InFlight : rq.endpoint = "/analyze-text" /\ rq.userEmail = <<"">>

----------------------------------------------------------------------------
(* C17 as claimed: no request to /analyze-file is ever issued while no     *)
(* user is logged in.                                                      *)
Cex_C17_NoAnalyzeFileRequestWithoutUser ==
    [][\A rq \in BagToSet(reqs') :
          (FetchIssued(rq) /\ rq.endpoint = "/analyze-file") => currentUser' # Null]_vars

(* C17 as amended: no analysis of a file is started while no user is       *)
(* logged in (analyzeFile with currentUser null only opens the login       *)
(* modal), the first request of an analysis carries the email of the user  *)
(* logged in when it is started, and every retry carries the same email    *)
(* and file as the attempt before it, whoever is logged in by then.        *)
Thm_C17_AnalysisStartedByLoggedInUser ==
    /\ [][(AnalyzeFile /\ currentUser = Null) =>
            (loginModal' = TRUE /\ reqs' = reqs)]_vars
    /\ [][\A rq \in BagToSet(reqs') :
            (FetchIssued(rq) /\ rq.endpoint = "/analyze-file") =>
                IF rq.attempt = 0
                THEN /\ currentUser' # Null
                     /\ rq.userEmail = <<ToStr(GetField(currentUser', "email"))>>
                ELSE CopiesIn(Waiting(rq), reqs) > CopiesIn(Waiting(rq), reqs')]_vars

\* Nobody is logged in and the last attempt of a file analysis is in flight.
Wit_C17_RetryInFlightWithoutUser ==
    /\ currentUser = Null
    /\ \E rq \in InFlight :
          /\ rq.endpoint = "/analyze-file"
          /\ rq.pc = "fetching"
          /\ rq.attempt = 2
          /\ rq.userEmail \in {<<e>> : e \in Emails}

----------------------------------------------------------------------------
\* The base URL each page location must give.
ExpectedBaseURL(loc) ==
    CASE loc = [protocol |-> "http:", hostname |-> "localhost", port |-> ""] ->
            "http://localhost:5000"
      [] loc = [protocol |-> "http:", hostname |-> "127.0.0.1", port |-> "5000"] ->
            "http://127.0.0.1:5000"
      [] loc = [protocol |-> "http:", hostname |-> "192.168.1.7", port |-> "8080"] ->
            "http://192.168.1.7:8080"
      [] loc = [protocol |-> "https:", hostname |-> "myvakeel.example.com", port |-> ""] ->
            "https://myvakeel.example.com"
      [] loc = [protocol |-> "https:", hostname |-> "myvakeel.example.com", port |-> "8443"] ->
            "https://myvakeel.example.com:8443"

(* C21: on localhost, 127.0.0.1 or a host containing '192.168.' the base   *)
(* URL is protocol//hostname:port, with port 5000 when the page has none;  *)
(* on every other host it is the page origin; and every URL a call         *)
(* requests is the base URL followed by '/api' and the endpoint.           *)
Thm_C21_BaseURLAndApiPrefix ==
    /\ \A loc \in Locations : DetectBaseURL(loc) = ExpectedBaseURL(loc)
    /\ baseURL \in {ExpectedBaseURL(loc) : loc \in Locations}
    /\ \A c \in Calls :
          cpc[c] # "idle" => curl[c] = baseURL \o "/api" \o cpassed[c].endpoint

\* A page on localhost without a port: a chat request goes to port 5000.
Wit_C21_LocalhostFallsBackToPort5000 ==
    \E c \in Calls : cpc[c] = "fetching" /\ curl[c] = "http://localhost:5000/api/chat"

----------------------------------------------------------------------------
\* The message of the classified error has 'file' or 'format' in it.
MentionsFileOrFormat ==
    /\ detected.called
    /\ detected.error # Null
    /\ Includes(detected.error.message, "file") \/ Includes(detected.error.message, "format")

\* The rules of detectErrorType that come before the one on 'file' and
\* 'format', for what was classified.
NetworkRuleApplies ==
    \/ detected.error.name = "TypeError"
    \/ Includes(detected.error.message, "Failed to fetch")
StatusRuleApplies ==
    detected.response # Null /\ detected.response.status \in {401, 413, 500, 503}
EarlierMessageRuleApplies ==
    \/ Includes(detected.error.message, "File too large")
    \/ Includes(detected.error.message, "login")
    \/ Includes(detected.error.message, "authentication")

----------------------------------------------------------------------------
(* C23: a failed call throws the error of its last attempt; a response     *)
(* with a status in 400..499 ends the call on whichever attempt it comes;  *)
(* a call that sees 503 and then 400 makes exactly two requests and one    *)
(* backoff wait and fails with the error of the 400.                       *)
Thm_C23_LastErrorSurfaces ==
    /\ pc = "thrown" =>
          /\ events # <<>>
          /\ IsFailure(events[Len(events)])
          /\ events[Len(events)].ev = "reject" => outcome.error = TransportError
          /\ events[Len(events)].ev = "response" =>
                /\ response # <<>>
                /\ response[1].status = events[Len(events)].n
                /\ outcome = [kind |-> "thrown", error |-> ResponseError(response[1])]
                /\ outcome.error.status = events[Len(events)].n
    /\ \A i \in DOMAIN events :
          (events[i].ev = "response" /\ events[i].n >= 400 /\ events[i].n <= 499) =>
              (i = Len(events) /\ pc = "thrown")
    /\ Answers = <<Ev("response", 503), Ev("response", 400)>> =>
          /\ pc = "thrown"
          /\ Count("fetch") = 2
          /\ Count("sleep") = 1
          /\ outcome.error.name = "APIError"
          /\ outcome.error.status = 400

Wit_C23_ServerErrorThenBadRequest ==
    /\ pc = "thrown"
    /\ Answers = <<Ev("response", 503), Ev("response", 400)>>
    /\ outcome.error.status = 400
    /\ Count("fetch") = 2

----------------------------------------------------------------------------
(* C24: a failed attempt ends the call at once exactly when it is an HTTP  *)
(* error with a status in 400..499; after every other failure (fetch       *)
(* rejected, or a non-2xx status outside 400..499 such as 304, 500, 503)   *)
(* the call waits and issues the next request, as long as the attempt was  *)
(* not the one of index retryAttempts.                                     *)
Thm_C24_OnlyClientErrorsAreNotRetried ==
    /\ [][(pc = "fetching" /\ Len(events') > Len(events)
                            /\ IsFailure(events'[Len(events) + 1])) =>
            LET answer == events'[Len(events) + 1] IN
            IF answer.ev = "response" /\ answer.n >= 400 /\ answer.n <= 499
            THEN pc' = "thrown"
            ELSE IF attempt < retryAttempts
            THEN pc' = "sleeping"
            ELSE pc' = "thrown"]_vars
    /\ [][pc = "sleeping" =>
            /\ pc' = "fetching"
            /\ attempt' = attempt + 1
            /\ events' = Append(events, Ev("fetch", attempt + 1))]_vars

\* A 304 on the first attempt and a rejection on the second are both
\* followed by a wait.
Wit_C24_NotModifiedAndRejectionRetried ==
    /\ pc = "sleeping"
    /\ Answers = <<Ev("response", 304), Ev("reject", 1)>>
    /\ Count("sleep") = 2

----------------------------------------------------------------------------
(* C26 as claimed: an analysis whose call finally fails with an HTTP       *)
(* status >= 500 is shown under 'server_error', by analyzeFile as by       *)
(* analyzeText.                                                            *)
Cex_C26_ServerErrorShownInBothFlows ==
    (/\ pc = "thrown"
     /\ outcome.error.name = "APIError"
     /\ outcome.error.status >= 500
     /\ shown # NoPanel) => shown.type = "server_error"

----------------------------------------------------------------------------
\* The number of calls in flight to an endpoint.
RECURSIVE SumCopies(_)
SumCopies(rqs) ==
    IF rqs = {} THEN 0
    ELSE LET rq == CHOOSE x \in rqs : TRUE
         IN CopiesIn(rq, reqs) + SumCopies(rqs \ {rq})
InFlightTo(endpoint) == SumCopies({rq \in InFlight : rq.endpoint = endpoint})

(* C25 as claimed: at most one chat request is in flight at any time.      *)
Cex_C25_OneChatRequestAtATime == InFlightTo("/chat") <= 1

----------------------------------------------------------------------------
\* The register call rq ends in this step without a successful
\* registration: it throws, or returns a payload without a truthy success.
RegistrationFails(rq) ==
    /\ rq.endpoint = "/register"
    /\ \/ PageFetchRejects(rq)
       \/ \E r \in PageResponses("/register") :
             /\ PageFetchResolves(rq, r)
             /\ ~(ResponseOk(r) /\ Truthy(GetField(ParsePayload(r), "success")))

(* C27: handleLogin on an empty or invalid email issues no register        *)
(* request and changes nothing; a registration that fails (the call        *)
(* throws, or answers without success) leaves currentUser and the stored   *)
(* record as they were; and a user is only ever logged in by a register    *)
(* call that answers with success.                                         *)
Thm_C27_SessionChangesOnlyOnSuccess ==
    /\ [][\A email \in EmailInputs :
            (HandleLogin(email) /\ (email = "" \/ ~IsValidEmail(email))) =>
                UNCHANGED <<reqs, currentUser, storedUser>>]_vars
    /\ [][\A rq \in InFlight :
            RegistrationFails(rq) => UNCHANGED <<currentUser, storedUser>>]_vars
    /\ [][(currentUser' # currentUser /\ currentUser' # Null) =>
            \E rq \in InFlight : \E e \in Emails :
                /\ rq.endpoint = "/register"
                /\ rq.pc = "fetching"
                /\ CopiesIn(rq, reqs') < CopiesIn(rq, reqs)
                /\ currentUser' = Obj([email |-> Str(e)])
                /\ storedUser' = Str(Stringify(currentUser'))]_vars

\* A registration on its last attempt, the earlier ones having failed,
\* with nobody logged in and nothing stored.
Wit_C27_FailedAttemptsLeaveNoSession ==
    /\ currentUser = Null
    /\ storedUser = Null
    /\ \E rq \in InFlight : rq.endpoint = "/register" /\ rq.attempt = 2

----------------------------------------------------------------------------
\* The endpoint called by the operation that disables the button.
EndpointOf(button) == CHOOSE endpoint \in {"/analyze-file", "/analyze-text", "/chat",
                                            "/register"} : ButtonOf(endpoint) = button

(* C30 as claimed: no button is enabled again while a request started by   *)
(* its operation is still in flight.                                       *)
Cex_C30_ButtonStaysDisabledWhileInFlight ==
    [][\A b \in Buttons :
         (disabled[b] /\ ~disabled'[b]) =>
             \A rq \in BagToSet(reqs') : rq.endpoint # EndpointOf(b)]_vars

----------------------------------------------------------------------------
(* C28 as claimed: the language of the manager is always one of en, hi,    *)
(* ta, and a call of changeLanguage either returns false, notifies nobody  *)
(* and changes neither the language nor the stored preference, or returns  *)
(* true and makes both equal to its argument.                              *)
Cex_C28_CurrentLanguageAlwaysSupported ==
    /\ languageManager # <<>> => languageManager[1].currentLanguage \in SupportedLanguages
    /\ (languageManager # <<>> /\ changed.returned # "none") =>
           IF changed.langCode \in SupportedLanguages
           THEN /\ changed.returned = "true"
                /\ languageManager[1].currentLanguage = changed.langCode
                /\ storedLanguage = <<changed.langCode>>
           ELSE /\ changed.returned = "false"
                /\ ~changed.notified

----------------------------------------------------------------------------
(* C29 as claimed: whenever voice input starts, the language of the        *)
(* recognizer is the code of the language the manager has selected.        *)
Cex_C29_RecognizerStartsInCurrentLanguage ==
    [][(/\ languageManager # <<>>
        /\ languageManager[1].currentLanguage \in SupportedLanguages
        /\ recognition # <<>>
        /\ recognition[1].phase = "idle"
        /\ recognition'[1].phase = "starting") =>
            recognition'[1].lang = ConfigCode(languageManager[1].currentLanguage)]_vars

====
